---- MODULE Spec2Model ----
(***************************************************************************)
(* Model of process_timetable (timetable_extractor.py): for every sheet of *)
(* the input workbook, locate the header row, read the teacher label and   *)
(* the header cells, then walk the rows below the header and fold every    *)
(* timeslot row with the rows that follow it into one output row.          *)
(*                                                                         *)
(* Text is a sequence of one-character strings, so that str(), strip(),    *)
(* "in", "\n".join and the time regular expression are computed and not    *)
(* assumed.  A cell is NaN (empty), a number or a text.  Row and column    *)
(* indices are 0-based as in the code; iloc turns them into 1-based        *)
(* sequence indices.                                                       *)
(***************************************************************************)
EXTENDS Integers, Sequences, FiniteSets, TLC

VARIABLES
    xls,           \* the input workbook: the sequence of its sheets (name, df)
    wb,            \* the output workbook: the sequence of worksheets created
    sheet_i,       \* number of sheets the for loop of line 23 has finished
    pc,            \* "loop" | "walk" | "saved" | "raised"
    start_row,     \* header row of the sheet being walked
    current_row,   \* row cursor of the while loop of line 72
    log,           \* sheet names printed as skipped (line 35)
    output_file,   \* what wb.save wrote: a sequence of worksheets, <<>> before
    visited,       \* history: the cursor at every iteration for this sheet
    groups,        \* history: per record of this sheet, the rows it was made of
    run,           \* 1: the run on the input; 2: the run on the first output
    first_output   \* the output of run 1, kept to compare run 2 with

vars == <<xls, wb, sheet_i, pc, start_row, current_row, log, output_file,
          visited, groups, run, first_output>>

(***************************************************************************)
(* Bounds of the inputs.                                                   *)
(***************************************************************************)
MaxRows == 3
MaxPad == 21
MaxSheets == 3

(***************************************************************************)
(* Cells and text.                                                         *)
(***************************************************************************)
NaN == [t |-> "nan", n |-> 0, s |-> <<>>]
Num(k) == [t |-> "num", n |-> k, s |-> <<>>]
Str(s) == [t |-> "str", n |-> 0, s |-> s]

notna(c) == c.t # "nan"
isinstance_str(c) == c.t = "str"

Digits == <<"0", "1", "2", "3", "4", "5", "6", "7", "8", "9">>
IsDigit(ch) == \E d \in 1..Len(Digits) : Digits[d] = ch

RECURSIVE Decimal(_)
Decimal(k) ==
    IF k < Len(Digits) THEN <<Digits[k + 1]>>
    ELSE Decimal(k \div Len(Digits)) \o <<Digits[(k % Len(Digits)) + 1]>>

\* str(value) of a cell that is not NaN: a text is itself, an integer its decimal
str(c) == IF c.t = "str" THEN c.s ELSE Decimal(c.n)

IsSpace(ch) == ch \in {" ", "\t", "\n"}

RECURSIVE lstrip(_)
lstrip(s) == IF s # <<>> /\ IsSpace(Head(s)) THEN lstrip(Tail(s)) ELSE s

RECURSIVE rstrip(_)
rstrip(s) ==
    IF s # <<>> /\ IsSpace(s[Len(s)]) THEN rstrip(SubSeq(s, 1, Len(s) - 1)) ELSE s

strip(s) == rstrip(lstrip(s))

\* sub in s
Contains(s, sub) ==
    \E k \in 1..(Len(s) - Len(sub) + 1) : SubSeq(s, k, k + Len(sub) - 1) = sub

RECURSIVE JoinFrom(_, _, _)
JoinFrom(values, sep, k) ==
    IF k > Len(values) THEN <<>>
    ELSE IF k = Len(values) THEN values[k]
    ELSE values[k] \o sep \o JoinFrom(values, sep, k + 1)

\* variant of join that ends the text with a separator
JoinTrailing(values) == JoinFrom(values, <<"\n">>, 1) \o <<"\n">>

\* "\n".join(values)
join(values) == JoinFrom(values, <<"\n">>, 1)

\* re.match(r'^\d{2}:\d{2}-\d{2}:\d{2}$', s): "$" matches at the end of the
\* text and also just before a newline that ends the text
re_match(s) ==
    /\ Len(s) \in {11, 12}
    /\ IsDigit(s[1]) /\ IsDigit(s[2]) /\ s[3] = ":"
    /\ IsDigit(s[4]) /\ IsDigit(s[5]) /\ s[6] = "-"
    /\ IsDigit(s[7]) /\ IsDigit(s[8]) /\ s[9] = ":"
    /\ IsDigit(s[10]) /\ IsDigit(s[11])
    /\ (Len(s) = 12 => s[12] = "\n")

\* The two tokens of lines 30 and 41, one element per character, each
\* character written by its reading: "ke","jie" and "lao","shi".
Marker == <<"ke", "jie">>
Teacher == <<"lao", "shi">>
ScanWindow == 20

(***************************************************************************)
(* The data frame of a sheet.                                              *)
(***************************************************************************)
len(df) == Len(df.rows)
shape1(df) == df.ncols
iloc(df, i, j) == df.rows[i + 1][j + 1]
Min(a, b) == IF a < b THEN a ELSE b

\* variant of find_start that scans every row of the frame
FindStartNoWindow(df, i) ==
    LET hits == {r \in 0..(len(df) - 1) :
                    isinstance_str(iloc(df, r, 0)) /\ iloc(df, r, 0).s = Marker}
    IN  IF hits = {} THEN [found |-> FALSE, row |-> 0]
        ELSE [found |-> TRUE, row |-> CHOOSE r \in hits : \A q \in hits : r <= q]

\* lines 28-32: the first of rows i..min(20, len)-1 whose column 0 is the marker
RECURSIVE find_start(_, _)
find_start(df, i) ==
    IF i >= Min(ScanWindow, len(df)) THEN [found |-> FALSE, row |-> 0]
    ELSE IF isinstance_str(iloc(df, i, 0)) /\ iloc(df, i, 0).s = Marker
         THEN [found |-> TRUE, row |-> i]
         ELSE find_start(df, i + 1)

\* lines 39-46: first cell of column 0 above the header that contains the
\* teacher token, else the sheet name
RECURSIVE find_teacher(_, _, _, _)
find_teacher(df, i, start, sheet_name) ==
    IF i >= start THEN sheet_name
    ELSE IF isinstance_str(iloc(df, i, 0)) /\ Contains(iloc(df, i, 0).s, Teacher)
         THEN iloc(df, i, 0).s
         ELSE find_teacher(df, i + 1, start, sheet_name)

\* lines 49-50
get_headers(df, start) ==
    [j \in 1..shape1(df) |->
        IF notna(iloc(df, start, j - 1)) THEN str(iloc(df, start, j - 1)) ELSE <<>>]

\* the condition of line 75 on row r
IsTimeslotRow(df, r) ==
    /\ notna(iloc(df, r, 1))
    /\ isinstance_str(iloc(df, r, 1))
    /\ re_match(iloc(df, r, 1).s)

\* variant of get_period that lets the rows after r, up to the next timeslot
\* row, override the period
PeriodLastRow(df, r) ==
    LET rs == {q \in r..(len(df) - 1) :
                  /\ notna(iloc(df, q, 0))
                  /\ \A m \in (r + 1)..q : ~IsTimeslotRow(df, m)}
    IN  IF rs = {} THEN Str(<<>>)
        ELSE iloc(df, CHOOSE q \in rs : \A m \in rs : m <= q, 0)

\* line 78
get_period(df, r) == IF notna(iloc(df, r, 0)) THEN iloc(df, r, 0) ELSE Str(<<>>)

\* variant of add_value that appends the trimmed text
AppendStripped(values, c) ==
    IF notna(c) /\ strip(str(c)) # <<>> THEN Append(values, strip(str(c)))
    ELSE values

\* lines 91-94: one cell of the lookahead
add_value(values, c) ==
    IF notna(c) /\ strip(str(c)) # <<>> THEN Append(values, str(c)) ELSE values

\* lines 84-97: the lookahead over one column, from offset off on; the values
\* collected and (history) the rows the loop read
RECURSIVE collect(_, _, _, _, _)
collect(df, cur, col, off, acc) ==
    IF /\ cur + off < len(df)
       /\ (off = 0 \/ ~IsTimeslotRow(df, cur + off))
    THEN LET nxt == [values |-> add_value(acc.values, iloc(df, cur + off, col)),
                     rows |-> acc.rows \cup {cur + off}]
         IN  IF cur + off + 1 >= len(df) THEN nxt
             ELSE collect(df, cur, col, off + 1, nxt)
    ELSE acc

lookahead(df, cur, col) == collect(df, cur, col, 0, [values |-> <<>>, rows |-> {}])

\* lines 81-100: [period, timeslot, one joined text per day column]
timeslot_data(df, cur) ==
    [period |-> get_period(df, cur),
     time |-> iloc(df, cur, 1).s,
     days |-> [d \in 1..(shape1(df) - 2) |-> join(lookahead(df, cur, d + 1).values)]]

\* variant of skip_offset that skips no continuation row
SkipOne(df, cur, off) == off

\* lines 112-117: the offset of the next timeslot row or of the end
RECURSIVE skip_offset(_, _, _)
skip_offset(df, cur, off) ==
    IF cur + off < len(df) /\ ~IsTimeslotRow(df, cur + off)
    THEN skip_offset(df, cur, off + 1)
    ELSE off

\* the characters : \ / ? * [ ]
InvalidTitleChars == {":", "\\", "/", "?", "*", "[", "]"}

\* the name without those characters, cut to 25 characters
TitleSanitized(sheet_name) ==
    LET kept == SelectSeq(sheet_name, LAMBDA ch : ch \notin InvalidTitleChars)
    IN  SubSeq(kept, 1, Min(Len(kept), 25))

\* line 53: the title create_sheet is given
sheet_title(sheet_name) == sheet_name

\* What read_excel(header=None) reads from a worksheet this program wrote
\* (lines 56-58, 103-104): row 0 holds the label, row 1 the header cells, then
\* one row per record.  A cell written as "" is read as empty, and the frame
\* is as wide as the last column that holds anything.
read_text(s) == IF s = <<>> THEN NaN ELSE Str(s)
read_value(c) == IF c.t = "str" /\ c.s = <<>> THEN NaN ELSE c
written_cells(ws) ==
    <<[j \in 1..Len(ws.headers) |-> IF j = 1 THEN read_text(ws.teacher_name) ELSE NaN]>>
    \o <<[j \in 1..Len(ws.headers) |-> read_text(ws.headers[j])]>>
    \o [k \in 1..Len(ws.rows) |->
          [j \in 1..Len(ws.headers) |->
              IF j = 1 THEN read_value(ws.rows[k].period)
              ELSE IF j = 2 THEN read_text(ws.rows[k].time)
              ELSE read_text(ws.rows[k].days[j - 2])]]
used_width(cells) ==
    LET used == {j \in 1..Len(cells[1]) : \E r \in 1..Len(cells) : cells[r][j] # NaN}
    IN  IF used = {} THEN 0 ELSE CHOOSE j \in used : \A q \in used : q <= j
read_excel(ws) ==
    LET cells == written_cells(ws)
        n == used_width(cells)
    IN  [ncols |-> n, rows |-> [r \in 1..Len(cells) |-> SubSeq(cells[r], 1, n)]]

(***************************************************************************)
(* The inputs: bounded families of workbooks.                              *)
(***************************************************************************)
DF(n, rows) == [ncols |-> n, rows |-> rows]
Sheet(name, df) == [name |-> name, df |-> df]

M1 == <<"0", "8", ":", "0", "0", "-", "0", "8", ":", "3", "0">>
M2 == <<"0", "9", ":", "0", "0", "-", "0", "9", ":", "3", "0">>
M1NL == M1 \o <<"\n">>
ShortTime == <<"8", ":", "0", "0", "-", "8", ":", "3", "0">>
TextA == <<"A">>
TextB == <<" ", "B", " ">>
Blank == <<" ">>

T1 == <<"T", "1">>
T2 == <<"T", "2">>
T3 == <<"T", "3">>
T4 == <<"T", "4">>
ChenLaoShi == <<"chen">> \o Teacher
LongName == [k \in 1..26 |-> "x"]

Header2 == <<Str(Marker), Str(<<"t">>)>>
Header3 == <<Str(Marker), Str(<<"t">>), Str(<<"M", "o", "n">>)>>
Header4 == <<Str(Marker), NaN, Str(<<"M", "o", "n">>), Num(2)>>

Body(rowset) == UNION {[1..k -> rowset] : k \in 0..MaxRows}

\* rows that vary the time cell
RowsTime ==
    {<<Num(1), t, d>> :
        t \in {NaN, Str(M1), Str(M2), Str(ShortTime), Str(M1NL), Num(8)},
        d \in {NaN, Str(TextA)}}
\* rows that vary the day cell
RowsDay ==
    {<<NaN, t, d>> :
        t \in {NaN, Str(M1)},
        d \in {NaN, Str(TextA), Str(TextB), Str(Blank), Str(<<>>), Num(7)}}
\* rows that vary the period cell
RowsPeriod ==
    {<<p, t, Str(TextA)>> :
        p \in {NaN, Num(1), Str(<<"2">>)}, t \in {Str(M1), Str(ShortTime)}}
\* rows of a sheet with two day columns, and of one with none
RowsWide ==
    {<<Num(1), t, d1, d2>> :
        t \in {NaN, Str(M1)}, d1 \in {NaN, Str(TextA)}, d2 \in {NaN, Str(TextB)}}
RowsNarrow == {<<p, t>> : p \in {NaN, Num(1)}, t \in {NaN, Str(M1)}}

WalkBooks ==
    {<<Sheet(T1, DF(3, <<Header3>> \o b))>> :
        b \in Body(RowsTime) \cup Body(RowsDay) \cup Body(RowsPeriod)}
    \cup {<<Sheet(T1, DF(4, <<Header4>> \o b))>> : b \in Body(RowsWide)}
    \cup {<<Sheet(T1, DF(2, <<Header2>> \o b))>> : b \in Body(RowsNarrow)}

\* sheets that vary where the marker is: p empty rows, then up to two rows
Pad(p) == [k \in 1..p |-> <<NaN, NaN>>]
RowsLocate ==
    {<<c, NaN>> : c \in {Str(Marker), Str(Marker \o <<"x">>), Str(ChenLaoShi), Num(3)}}
    \cup {<<Num(1), Str(M1)>>}
Tails == UNION {[1..k -> RowsLocate] : k \in 0..2}
LocateBooks ==
    {<<Sheet(nm, DF(2, Pad(p) \o tl))>> :
        nm \in {T1, ChenLaoShi, Marker}, p \in 0..MaxPad, tl \in Tails}

\* workbooks of several sheets
OkRows == <<Header3, <<Num(1), Str(M1), Str(TextA)>>, <<NaN, NaN, Str(TextB)>>>>
BookSheets ==
    {Sheet(T1, DF(3, OkRows)),
     Sheet(T2, DF(2, <<<<Str(TextA), NaN>>>>)),
     Sheet(T3, DF(1, <<<<Str(Marker)>>, <<Num(1)>>>>)),
     Sheet(T4, DF(0, <<>>)),
     Sheet(LongName, DF(3, OkRows)),
     Sheet(Marker, DF(3, OkRows)),
     Sheet(ChenLaoShi, DF(1, <<<<Str(Marker)>>>>))}
SheetBooks ==
    {w \in UNION {[1..k -> BookSheets] : k \in 1..MaxSheets} :
        \A a, b \in 1..Len(w) : a # b => w[a].name # w[b].name}

Workbooks == WalkBooks \cup LocateBooks \cup SheetBooks

(***************************************************************************)
(* The program.                                                            *)
(***************************************************************************)
\* lines 16-20
Init ==
    /\ xls \in Workbooks
    /\ wb = <<>>
    /\ sheet_i = 0
    /\ pc = "loop"
    /\ start_row = 0
    /\ current_row = 0
    /\ log = <<>>
    /\ output_file = <<>>
    /\ visited = <<>>
    /\ groups = <<>>
    /\ run = 1
    /\ first_output = <<>>

sheet_name == xls[sheet_i + 1].name
df == xls[sheet_i + 1].df

\* lines 23-36: no header row in the window: print and continue
SkipSheet ==
    /\ pc = "loop"
    /\ sheet_i < Len(xls)
    /\ ~find_start(df, 0).found
    /\ log' = Append(log, sheet_name)
    /\ sheet_i' = sheet_i + 1
    /\ UNCHANGED <<xls, wb, pc, start_row, current_row, output_file, visited,
                   groups, run, first_output>>

\* lines 23-70: header row found; label, headers and the new worksheet
LocateSheet ==
    /\ pc = "loop"
    /\ sheet_i < Len(xls)
    /\ find_start(df, 0).found
    /\ LET start == find_start(df, 0).row IN
        /\ start_row' = start
        /\ current_row' = start + 1
        /\ wb' = Append(wb, [title |-> sheet_title(sheet_name),
                             teacher_name |-> find_teacher(df, 0, start, sheet_name),
                             headers |-> get_headers(df, start),
                             rows |-> <<>>])
    /\ pc' = "walk"
    /\ visited' = <<>>
    /\ groups' = <<>>
    /\ UNCHANGED <<xls, sheet_i, log, output_file, run, first_output>>

\* lines 72-119: a timeslot row: fold it with the rows after it, write the
\* record, move the cursor past the rows folded
TimeslotRow ==
    /\ pc = "walk"
    /\ current_row < len(df)
    /\ shape1(df) >= 2
    /\ IsTimeslotRow(df, current_row)
    /\ wb' = [wb EXCEPT ![Len(wb)].rows = Append(@, timeslot_data(df, current_row))]
    /\ current_row' = current_row + skip_offset(df, current_row, 1)
    /\ visited' = Append(visited, current_row)
    /\ groups' = Append(groups,
            [primary |-> current_row,
             next |-> current_row + skip_offset(df, current_row, 1),
             read |-> [d \in 1..(shape1(df) - 2) |->
                          lookahead(df, current_row, d + 1).rows]])
    /\ UNCHANGED <<xls, sheet_i, pc, start_row, log, output_file, run, first_output>>

\* lines 72-75, 120-121: any other row
OtherRow ==
    /\ pc = "walk"
    /\ current_row < len(df)
    /\ shape1(df) >= 2
    /\ ~IsTimeslotRow(df, current_row)
    /\ current_row' = current_row + 1
    /\ visited' = Append(visited, current_row)
    /\ UNCHANGED <<xls, wb, sheet_i, pc, start_row, log, output_file, groups,
                   run, first_output>>

\* line 75 on a frame of one column: df.iloc[current_row, 1] raises IndexError;
\* nothing catches it, the run ends unsaved
RowRaises ==
    /\ pc = "walk"
    /\ current_row < len(df)
    /\ shape1(df) < 2
    /\ pc' = "raised"
    /\ UNCHANGED <<xls, wb, sheet_i, start_row, current_row, log, output_file,
                   visited, groups, run, first_output>>

\* lines 72, 123-141: the walk is over, on to the next sheet
EndSheet ==
    /\ pc = "walk"
    /\ current_row >= len(df)
    /\ sheet_i' = sheet_i + 1
    /\ pc' = "loop"
    /\ UNCHANGED <<xls, wb, start_row, current_row, log, output_file, visited,
                   groups, run, first_output>>

\* lines 143-145
Save ==
    /\ pc = "loop"
    /\ sheet_i = Len(xls)
    /\ output_file' = wb
    /\ pc' = "saved"
    /\ UNCHANGED <<xls, wb, sheet_i, start_row, current_row, log, visited,
                   groups, run, first_output>>

\* lines 6-25 again: process_timetable run on the workbook it wrote
Rerun ==
    /\ pc = "saved"
    /\ run = 1
    /\ output_file # <<>>
    /\ xls' = [k \in 1..Len(output_file) |->
                  Sheet(output_file[k].title, read_excel(output_file[k]))]
    /\ first_output' = output_file
    /\ run' = 2
    /\ wb' = <<>>
    /\ sheet_i' = 0
    /\ pc' = "loop"
    /\ start_row' = 0
    /\ current_row' = 0
    /\ log' = <<>>
    /\ output_file' = <<>>
    /\ visited' = <<>>
    /\ groups' = <<>>

Next ==
    \/ SkipSheet
    \/ LocateSheet
    \/ TimeslotRow
    \/ OtherRow
    \/ RowRaises
    \/ EndSheet
    \/ Save
    \/ Rerun

Spec == Init /\ [][Next]_vars

(***************************************************************************)
(* Properties.                                                             *)
(***************************************************************************)
Last(q) == q[Len(q)]
Names(q) == [k \in 1..Len(q) |-> q[k].name]
Titles(q) == [k \in 1..Len(q) |-> q[k].title]
Logged(nm) == \E q \in 1..Len(log) : log[q] = nm

\* rows of the scan window whose column-0 cell is the marker token
MarkerRows(d) ==
    {r \in 0..(Min(ScanWindow, len(d)) - 1) : iloc(d, r, 0) = Str(Marker)}
HasHeader(sh) == MarkerRows(sh.df) # {}

\* C1: the header search looks at column 0 of the first min(20, rows) rows only:
\* a sheet is skipped exactly when no row of that window holds the marker
\* token, and otherwise the header row is the lowest such row, whose column 0
\* (the period column) holds the marker.
C1_HeaderSearch ==
    /\ \A k \in 1..sheet_i : Logged(xls[k].name) <=> ~HasHeader(xls[k])
    /\ pc = "walk" =>
        /\ start_row \in MarkerRows(df)
        /\ \A r \in MarkerRows(df) : start_row <= r
        /\ iloc(df, start_row, 0) = Str(Marker)

\* a sheet skipped although the marker stands at row 20 or below
C1_Witness ==
    \E k \in 1..sheet_i :
        /\ Logged(xls[k].name)
        /\ \E r \in ScanWindow..(len(xls[k].df) - 1) :
              iloc(xls[k].df, r, 0) = Str(Marker)

\* C2: once the run is over, it has saved the output, and the output holds
\* exactly one sheet per input sheet with a header row, in input order; the
\* sheets without a header row are left out.
C2_SkipIsolation ==
    pc \in {"saved", "raised"} =>
        /\ pc = "saved"
        /\ Titles(output_file) = Names(SelectSeq(xls, HasHeader))

\* the text is exactly two digits, colon, two digits, hyphen, two digits,
\* colon, two digits
StrictTime(c) ==
    /\ c.t = "str"
    /\ Len(c.s) = 11
    /\ \A k \in {1, 2, 4, 5, 7, 8, 10, 11} : IsDigit(c.s[k])
    /\ c.s[3] = ":" /\ c.s[6] = "-" /\ c.s[9] = ":"
StartRows(d, start) == {r \in (start + 1)..(len(d) - 1) : StrictTime(iloc(d, r, 1))}

\* C3: when the walk of a sheet is over, its records are, in increasing row
\* order, exactly the rows below the header whose time cell is a text of the
\* strict form HH:MM-HH:MM, and the group of each record runs from its row up
\* to, not including, the next such row or the end of the grid.
C3_TimePatternGroups ==
    (pc = "walk" /\ current_row >= len(df) /\ shape1(df) >= 2) =>
        /\ Len(Last(wb).rows) = Len(groups)
        /\ {groups[k].primary : k \in 1..Len(groups)} = StartRows(df, start_row)
        /\ \A k \in 1..Len(groups) :
            /\ k < Len(groups) => groups[k].primary < groups[k + 1].primary
            /\ groups[k].next \in StartRows(df, start_row) \cup {len(df)}
            /\ \A r \in (groups[k].primary + 1)..(groups[k].next - 1) :
                  r \notin StartRows(df, start_row)

\* the texts of column col over rows r..last that are not empty once trimmed,
\* trimmed or as they are
RECURSIVE DayTexts(_, _, _, _, _)
DayTexts(d, col, r, last, trimmed) ==
    IF r > last THEN <<>>
    ELSE LET c == iloc(d, r, col)
             text == IF c.t = "str" THEN c.s ELSE Decimal(c.n)
         IN  (IF c.t # "nan" /\ strip(text) # <<>>
              THEN <<IF trimmed THEN strip(text) ELSE text>>
              ELSE <<>>) \o DayTexts(d, col, r + 1, last, trimmed)

Folded(trimmed) ==
    pc = "walk" =>
        \A k \in 1..Len(groups) : \A d \in 1..(shape1(df) - 2) :
            Last(wb).rows[k].days[d] =
                JoinFrom(DayTexts(df, d + 1, groups[k].primary,
                                  groups[k].next - 1, trimmed), <<"\n">>, 1)

\* C4 as stated: every day value of a record is the newline join, in row
\* order, of the whitespace-trimmed texts of the group's cells of that column
\* that are not empty after trimming (the empty text when there is none).
C4_FoldTrimmed == Folded(TRUE)

\* C4 as amended: every day value of a record is the newline join, in row
\* order, of the texts, as they stand in the cells, of the group's cells of
\* that column that are not empty after trimming (the empty text when there
\* is none).
C4_FoldUntrimmed == Folded(FALSE)

\* a record folded from three rows: a padded text, a blank cell, a text
C4_Witness ==
    /\ pc = "walk"
    /\ shape1(df) = 3
    /\ \E k \in 1..Len(groups) :
        /\ groups[k].next - groups[k].primary = 3
        /\ iloc(df, groups[k].primary + 1, 2) = Str(Blank)
        /\ Last(wb).rows[k].days[1] = TextB \o <<"\n">> \o TextA

\* C5: the period and the time of every record are those of its primary row
\* (the empty text for an empty period cell); the rows that follow in the
\* group change neither.
C5_PrimaryPassthrough ==
    pc = "walk" =>
        \A k \in 1..Len(groups) :
            LET p == iloc(df, groups[k].primary, 0)
                rec == Last(wb).rows[k]
            IN  /\ rec.period = (IF p = NaN THEN Str(<<>>) ELSE p)
                /\ Str(rec.time) = iloc(df, groups[k].primary, 1)

\* a record whose continuation row holds another period and a time text
C5_Witness ==
    /\ pc = "walk"
    /\ \E k \in 1..Len(groups) :
        /\ groups[k].next - groups[k].primary >= 2
        /\ iloc(df, groups[k].primary + 1, 0) \notin {NaN, iloc(df, groups[k].primary, 0)}
        /\ iloc(df, groups[k].primary + 1, 1) # NaN

\* C6: no output sheet holds two records with the same period and the same
\* time.
C6_NoDuplicatePeriodTime ==
    \A w \in 1..Len(wb) : \A a, b \in 1..Len(wb[w].rows) :
        (wb[w].rows[a].period = wb[w].rows[b].period
            /\ wb[w].rows[a].time = wb[w].rows[b].time) => a = b

\* the content of a worksheet: its title, label, headers and records up to
\* the last column that holds anything
Table(ws) ==
    LET n == used_width(written_cells(ws)) IN
    [title |-> ws.title,
     teacher_name |-> ws.teacher_name,
     headers |-> SubSeq(ws.headers, 1, n),
     rows |-> [k \in 1..Len(ws.rows) |->
                  [period |-> ws.rows[k].period,
                   time |-> ws.rows[k].time,
                   days |-> SubSeq(ws.rows[k].days, 1, n - 2)]]]
Tables(q) == [k \in 1..Len(q) |-> Table(q[k])]

Fails(sh) ==
    /\ HasHeader(sh)
    /\ sh.df.ncols < 2
    /\ \E r \in MarkerRows(sh.df) : r + 1 < len(sh.df)
Succeeds(sh) == HasHeader(sh) /\ ~Fails(sh)

\* C8: a failure while a sheet is processed never ends the run: the run goes
\* on to save, and the output holds every sheet with a header row whose own
\* processing does not fail.
C8_FailureIsolation ==
    /\ pc # "raised"
    /\ pc = "saved" => Titles(output_file) = Names(SelectSeq(xls, Succeeds))

\* C9 as stated: the title of every output sheet is the name of its input
\* sheet without the characters : \ / ? * [ ] and cut to 25 characters.
C9_TitleSanitized ==
    \A k \in 1..Len(wb) : wb[k].title = TitleSanitized(SelectSeq(xls, HasHeader)[k].name)

\* C9 as amended: the title of every output sheet is the name of its input
\* sheet, unchanged: nothing is removed and nothing is cut.
C9_TitleUnchanged ==
    /\ Len(wb) <= Len(SelectSeq(xls, HasHeader))
    /\ \A k \in 1..Len(wb) : wb[k].title = SelectSeq(xls, HasHeader)[k].name

\* an output sheet saved under a name longer than 25 characters
C9_Witness ==
    /\ pc = "saved"
    /\ \E k \in 1..Len(output_file) : Len(output_file[k].title) > 25

Range(q) == {q[k] : k \in 1..Len(q)}

\* C10: the cursor starts right below the header, moves forward at every
\* iteration and never past the end, so the walk ends; the rows the lookahead
\* of a record reads, in every day column, are exactly the rows the cursor
\* then jumps over; hence no row belongs to two records and every row below
\* the header and above the cursor was either visited once as a row of no
\* record or is part of exactly one record.
C10_CursorAndGroups ==
    pc = "walk" =>
        /\ current_row <= len(df)
        /\ current_row > start_row
        /\ visited # <<>> => visited[1] = start_row + 1 /\ Last(visited) < current_row
        /\ \A k \in 1..(Len(visited) - 1) : visited[k] < visited[k + 1]
        /\ \A k \in 1..Len(groups) :
            /\ groups[k].next > groups[k].primary
            /\ \A d \in 1..(shape1(df) - 2) :
                  groups[k].read[d] = groups[k].primary..(groups[k].next - 1)
            /\ k < Len(groups) => groups[k].next <= groups[k + 1].primary
        /\ \A r \in (start_row + 1)..(current_row - 1) :
              Cardinality({k \in 1..Len(groups) :
                              r \in groups[k].primary..(groups[k].next - 1)})
                  = IF r \in Range(visited) \ {groups[k].primary : k \in 1..Len(groups)}
                    THEN 0 ELSE 1

\* a finished walk over two day columns: a row of no record, then a record of
\* two rows
C10_Witness ==
    /\ pc = "walk" /\ current_row = len(df)
    /\ groups # <<>>
    /\ groups[1].primary > start_row + 1
    /\ groups[1].next - groups[1].primary >= 2
    /\ shape1(df) > 3

====
